---- MODULE Spec2Model ----
(***************************************************************************)
(* Model of the batching / retry / pooling engine of ffs2-logger:          *)
(*   - LogEventPool        (helpers/LogEventPool, found in format.ts)      *)
(*   - AAsyncBatchAppender (appenders/base/AAsyncBatchAppender)            *)
(* JavaScript is single-threaded: every action below is one synchronous    *)
(* run of code between two suspension points (await / timer / call).       *)
(***************************************************************************)
EXTENDS Integers, Sequences, FiniteSets, TLC

(* ------------------------------ bounds --------------------------------- *)
\* number of external calls (append / forceFlush / destroy) in a run
MaxCalls == 3
\* longest array handed to one append() call
MaxArr == 2
\* capacity of the pool (constructor argument maxPoolSize)
MaxPoolSize == 2
\* number of direct pool operations in the pool-only specification
MaxPoolOps == 5
\* largest count handed to prewarm()
MaxPrewarm == 2
\* number of processBatch invocations the sink may reject in a run
MaxFails == 2
\* number of events appended by the sequential producer
SeqN == 7
\* largest maxRetries configured against the sink that always fails
MaxRetries == 6
\* number of external calls made against the sink that always fails
MaxFailCalls == 2
\* number of processBatch invocations of the file sink in a run
MaxInvocations == 2
\* longest batch handed to the file sink
MaxBatchLen == 2
\* number of awaited appends against the memory threshold
MaxMemCalls == 3

(* --------------------------- values ------------------------------------ *)
\* JavaScript undefined (an absent optional field / an unset option)
Undefined == -1

Nullish(x, d) == IF x = Undefined THEN d ELSE x

Min(a, b) == IF a < b THEN a ELSE b

Max(a, b) == IF a > b THEN a ELSE b

RECURSIVE GCD(_, _)
GCD(a, b) == IF b = 0 THEN a ELSE GCD(b, a % b)

Range(s) == {s[i] : i \in 1..Len(s)}

VARIABLES
  \* LogEventPool
  pool,          \* the free list (event object identities, top at the end)
  created,
  reused,
  active,
  \* the heap of event objects: evt[id] is the object with identity id
  evt,
  \* AAsyncBatchAppender
  config,
  batch,         \* pending buffer
  flushTimer,    \* TRUE iff this.flushTimer holds a timer handle
  armed,         \* number of flush timers set and neither cleared nor fired
  stats,
  isDestroying,
  \* FileAsyncBatchAppender: its fileInitialized and appendToFile fields,
  \* the log file, and its processBatch invocations
  sink,
  \* in-flight and settled asynchronous calls (promises)
  tasks,
  \* the batches swapped out of the pending buffer, in the order of their
  \* first hand-off to processBatch, each with its life so far
  handed,
  \* observation: number of events in the batches counted in batchesFlushed
  flushedTotal,
  \* observation: number of processBatch invocations the sink has rejected
  sinkFails,
  \* observation: number of flush() calls made by destroy()
  drains,
  \* observation: the direct pool operations performed, in order
  opLog,
  \* observation: the events pushed by addToBatch, in push order, each with
  \* the value of isDestroying at the push
  accepted

poolVars == <<pool, created, reused, active, evt>>

engineVars == <<config, batch, flushTimer, armed, stats, isDestroying, sink>>

obsVars == <<handed, flushedTotal, sinkFails, drains, opLog, accepted>>

vars == <<pool, created, reused, active, evt, config, batch, flushTimer,
          armed, stats, isDestroying, sink, tasks, handed, flushedTotal,
          sinkFails, drains, opLog, accepted>>

(* ------------------------- LogEventPool -------------------------------- *)
\* JSON.stringify throws on this data value (circular reference)
Circular == -2

\* the data value 0: present, falsy, serialized as "0"
FalsyData == -3

\* JavaScript truthiness of an optional string (kept by its length), an
\* optional number or a data value
Truthy(x) == x \notin {Undefined, 0, FalsyData}

\* JSON.stringify(data).length for a data value that serializes
SerializedLength(d) == IF d = FalsyData THEN 1 ELSE d

\* the time new Date() reads when an event carries no timestamp
Now == -4

\* what the pattern-following producer writes into its pooled event
PooledParams ==
  [level |-> "error", message |-> 1, data |-> Circular, context |-> Undefined,
   error |-> 1, timestamp |-> 2]

\* what the producer of plain events writes into each of them
PlainParams ==
  [level |-> "warn", message |-> 2, data |-> 3, context |-> 1,
   error |-> Undefined, timestamp |-> 1]

\* the fields a producer may set on an event; strings are kept by their
\* length, data by the length of its serialization
ParamSets == {PlainParams, PooledParams}

\* the object literal built by createNewEvent
createNewEvent ==
  [poolable |-> TRUE, inPool |-> FALSE, level |-> "info", timestamp |-> 0,
   message |-> Undefined, data |-> Undefined, context |-> Undefined,
   error |-> Undefined]

\* event.reset()
reset(ev) ==
  [ev EXCEPT !.message = Undefined, !.data = Undefined, !.context = Undefined,
             !.error = Undefined, !.level = "info", !.timestamp = 0]

\* a plain LogEvent literal (no _inPool field, no reset method)
plainEvent(params) ==
  [poolable |-> FALSE, inPool |-> FALSE, level |-> params.level,
   timestamp |-> params.timestamp, message |-> params.message,
   data |-> params.data, context |-> params.context, error |-> params.error]

\* the assignments a producer makes on an acquired event
populate(ev, params) ==
  [ev EXCEPT !.level = params.level, !.message = params.message,
             !.data = params.data, !.context = params.context,
             !.error = params.error, !.timestamp = params.timestamp]

PoolState ==
  [pool |-> pool, created |-> created, reused |-> reused, active |-> active,
   evt |-> evt]

SetPool(p) ==
  /\ pool' = p.pool
  /\ created' = p.created
  /\ reused' = p.reused
  /\ active' = p.active
  /\ evt' = p.evt

\* acquire() that forgets active++ when it reuses an instance (a plausible
\* slip)
acquireNoActive(p) ==
  IF p.pool = <<>>
    THEN [st |-> [p EXCEPT !.evt = Append(p.evt, createNewEvent),
                           !.created = p.created + 1,
                           !.active = p.active + 1],
          ev |-> Len(p.evt) + 1]
    ELSE LET e == p.pool[Len(p.pool)]
         IN [st |-> [p EXCEPT !.pool = SubSeq(p.pool, 1, Len(p.pool) - 1),
                              !.reused = p.reused + 1,
                              !.evt[e].inPool = FALSE],
             ev |-> e]

\* acquire() that forgets this.reused++ (a plausible slip)
acquireNoReused(p) ==
  IF p.pool = <<>>
    THEN [st |-> [p EXCEPT !.evt = Append(p.evt, createNewEvent),
                           !.created = p.created + 1,
                           !.active = p.active + 1],
          ev |-> Len(p.evt) + 1]
    ELSE LET e == p.pool[Len(p.pool)]
         IN [st |-> [p EXCEPT !.pool = SubSeq(p.pool, 1, Len(p.pool) - 1),
                              !.evt[e].inPool = FALSE,
                              !.active = p.active + 1],
             ev |-> e]

\* acquire(): the pool state afterwards and the identity returned
acquire(p) ==
  IF p.pool = <<>>
    THEN [st |-> [p EXCEPT !.evt = Append(p.evt, createNewEvent),
                           !.created = p.created + 1,
                           !.active = p.active + 1],
          ev |-> Len(p.evt) + 1]
    ELSE LET e == p.pool[Len(p.pool)]
         IN [st |-> [p EXCEPT !.pool = SubSeq(p.pool, 1, Len(p.pool) - 1),
                              !.reused = p.reused + 1,
                              !.evt[e].inPool = FALSE,
                              !.active = p.active + 1],
             ev |-> e]

\* release(event) without the "already in pool" guard (a plausible slip)
releaseNoGuard(p, e) ==
  LET q == [p EXCEPT !.evt[e] = [reset(p.evt[e]) EXCEPT !.inPool = TRUE]]
      r == IF Len(q.pool) < MaxPoolSize
             THEN [q EXCEPT !.pool = Append(q.pool, e)]
             ELSE q
  IN [r EXCEPT !.active = Max(0, r.active - 1)]

\* release(event) that forgets event.reset() (a plausible slip)
releaseNoReset(p, e) ==
  IF p.evt[e].inPool
    THEN p
    ELSE LET q == [p EXCEPT !.evt[e].inPool = TRUE]
             r == IF Len(q.pool) < MaxPoolSize
                    THEN [q EXCEPT !.pool = Append(q.pool, e)]
                    ELSE q
         IN [r EXCEPT !.active = Max(0, r.active - 1)]

\* release(event)
release(p, e) ==
  IF p.evt[e].inPool
    THEN p
    ELSE LET q == [p EXCEPT !.evt[e] = [reset(p.evt[e]) EXCEPT !.inPool = TRUE]]
             r == IF Len(q.pool) < MaxPoolSize
                    THEN [q EXCEPT !.pool = Append(q.pool, e)]
                    ELSE q
         IN [r EXCEPT !.active = Max(0, r.active - 1)]

\* clear()
clear(p) == [p EXCEPT !.pool = <<>>, !.created = 0, !.reused = 0, !.active = 0]

\* getStats().hitRate, as a reduced fraction
hitRate(p) ==
  LET total == p.created + p.reused
  IN IF total > 0 THEN [num |-> p.reused \div GCD(p.reused, total),
                        den |-> total \div GCD(p.reused, total)]
     ELSE [num |-> 0, den |-> 1]

\* prewarm(count): the loop body runs Min(count, maxPoolSize) times
RECURSIVE prewarmLoop(_, _)
prewarmLoop(p, n) ==
  IF n = 0
    THEN p
    ELSE prewarmLoop(
           [p EXCEPT !.evt = Append(p.evt,
                                [reset(createNewEvent) EXCEPT !.inPool = TRUE]),
                     !.pool = Append(p.pool, Len(p.evt) + 1)],
           n - 1)

prewarm(p, count) == prewarmLoop(p, Min(count, MaxPoolSize))

(* ----------------------- AAsyncBatchAppender ---------------------------- *)
\* the BatchConfig values explored: { maxBatchSize, maxMemoryUsage,
\* enableRetry, maxRetries } (maxWaitTime only sets the timer's delay)
Configs ==
  { [maxBatchSize |-> 1, maxMemoryUsage |-> Undefined, enableRetry |-> FALSE,
     maxRetries |-> Undefined],
    [maxBatchSize |-> 2, maxMemoryUsage |-> Undefined, enableRetry |-> TRUE,
     maxRetries |-> 2],
    [maxBatchSize |-> 3, maxMemoryUsage |-> 300, enableRetry |-> TRUE,
     maxRetries |-> Undefined],
    [maxBatchSize |-> 1, maxMemoryUsage |-> Undefined, enableRetry |-> TRUE,
     maxRetries |-> 1],
    [maxBatchSize |-> 2, maxMemoryUsage |-> 0, enableRetry |-> FALSE,
     maxRetries |-> 1],
    [maxBatchSize |-> 1, maxMemoryUsage |-> Undefined, enableRetry |-> TRUE,
     maxRetries |-> 0] }

\* the configurations run against the sink that always fails: retry on
FailConfigs ==
  { [maxBatchSize |-> b, maxMemoryUsage |-> Undefined, enableRetry |-> TRUE,
     maxRetries |-> m] : b \in 1..2, m \in 1..MaxRetries }

\* the configurations of the sequential producer: size trigger only, no retry
SeqConfigs ==
  { [maxBatchSize |-> b, maxMemoryUsage |-> Undefined, enableRetry |-> FALSE,
     maxRetries |-> Undefined] : b \in 1..3 }

Frac(n, d) == LET g == GCD(n, d) IN [num |-> n \div g, den |-> d \div g]

\* the stats literal of the constructor
InitStats ==
  [totalEvents |-> 0, batchesFlushed |-> 0, avgBatchSize |-> Frac(0, 1),
   pendingEvents |-> 0, errors |-> 0, retries |-> 0]

\* estimateEventSize(event)
estimateEventSize(ev) ==
  100
  + (IF ev.message # Undefined /\ ev.message # 0 THEN ev.message * 2 ELSE 0)
  + (IF ev.context # Undefined /\ ev.context # 0 THEN ev.context * 2 ELSE 0)
  + (IF ~Truthy(ev.data) THEN 0
     ELSE IF ev.data = Circular THEN 100
     ELSE SerializedLength(ev.data) * 2)

\* estimateBatchMemoryUsage() over buffer b and heap h
RECURSIVE estimateBatchMemoryUsage(_, _)
estimateBatchMemoryUsage(b, h) ==
  IF b = <<>> THEN 0
  ELSE estimateEventSize(h[Head(b)]) + estimateBatchMemoryUsage(Tail(b), h)

\* shouldFlush() with a strict size comparison (a plausible slip)
shouldFlushStrict(b, h) ==
  \/ Len(b) > config.maxBatchSize
  \/ /\ config.maxMemoryUsage # Undefined
     /\ config.maxMemoryUsage # 0
     /\ estimateBatchMemoryUsage(b, h) >= config.maxMemoryUsage

\* shouldFlush() over buffer b and heap h
shouldFlush(b, h) ==
  \/ Len(b) >= config.maxBatchSize
  \/ /\ config.maxMemoryUsage # Undefined
     /\ config.maxMemoryUsage # 0
     /\ estimateBatchMemoryUsage(b, h) >= config.maxMemoryUsage

\* updateAverageBatchSize(batchSize) that weights the old average by
\* batchesFlushed instead of batchesFlushed - 1 (a plausible slip)
updateAverageBatchSizeNoMinusOne(st, batchSize) ==
  IF st.batchesFlushed = 1
    THEN [st EXCEPT !.avgBatchSize = Frac(batchSize, 1)]
    ELSE [st EXCEPT !.avgBatchSize =
            Frac(st.avgBatchSize.num * st.batchesFlushed
                   + batchSize * st.avgBatchSize.den,
                 st.avgBatchSize.den * st.batchesFlushed)]

\* updateAverageBatchSize(batchSize), batchesFlushed already incremented
updateAverageBatchSize(st, batchSize) ==
  IF st.batchesFlushed = 1
    THEN [st EXCEPT !.avgBatchSize = Frac(batchSize, 1)]
    ELSE [st EXCEPT !.avgBatchSize =
            Frac(st.avgBatchSize.num * (st.batchesFlushed - 1)
                   + batchSize * st.avgBatchSize.den,
                 st.avgBatchSize.den * st.batchesFlushed)]

\* returnEventsToPool(events) releasing nothing (a plausible slip)
returnEventsToPoolNone(p, events) == p

\* returnEventsToPool(events)
RECURSIVE returnEventsToPool(_, _)
returnEventsToPool(p, events) ==
  IF events = <<>> THEN p
  ELSE returnEventsToPool(
         IF p.evt[Head(events)].poolable THEN release(p, Head(events)) ELSE p,
         Tail(events))

\* the delay computed by retryBatch without the cap (a plausible slip)
backoffDelayNoCap(attempt) == 1000 * 2 ^ attempt

\* the delay computed by retryBatch
backoffDelay(attempt) == Min(1000 * 2 ^ attempt, 10000)

(* ---------------------- asynchronous calls ----------------------------- *)
\* One record per call of append / forceFlush / destroy / timer callback.
\*   pc: "sfAwait"    suspended in addToBatch at `await this.shouldFlush()`
\*       "loopNext"   append's for-loop about to take its next event
\*       "processing" suspended in flush at `await this.processBatch(..)`
\*       "backoff"    suspended in retryBatch at the delay promise
\*       "retrying"   suspended in retryBatch at `await this.processBatch(..)`
\*       "resolved" / "rejected"   the call's promise has settled
\*   bid: index in handed of the batch this call's flush() swapped out
\*   owner: the pooled event the caller releases in its finally block (or 0)
NewTask(kind, owner) ==
  [kind |-> kind, pc |-> "resolved", rest |-> <<>>, sf |-> FALSE, bid |-> 0,
   attempt |-> 0, delay |-> 0, owner |-> owner, released |-> FALSE]

\* One record per batch (the batchToFlush of one flush() call).
\*   state: FLUSHING | RETRYING | SUCCEEDED | FAILED_TERMINAL
\*   sent: the arguments of the processBatch invocations, in order,
\*   calls: processBatch invocations, fails: those that rejected,
\*   retriesMade: times retryBatch counted a retry for it,
\*   counted: times it was counted in batchesFlushed
NewBatch(t, events) ==
  [task |-> t, events |-> events, state |-> "FLUSHING", calls |-> 1,
   fails |-> 0, retriesMade |-> 0, counted |-> 0, sent |-> <<events>>]

Settled(rec) == rec.pc \in {"resolved", "rejected"}

\* number of external calls made so far (timer callbacks are no calls)
Calls == Cardinality({t \in 1..Len(tasks) : tasks[t].kind # "timer"})

PutTask(t, rec) ==
  IF t = Len(tasks) + 1 THEN Append(tasks, rec) ELSE [tasks EXCEPT ![t] = rec]

\* continuations that run before any timer callback can
MicrotaskPending ==
  \E t \in 1..Len(tasks) :
    \/ tasks[t].pc \in {"sfAwait", "loopNext"}
    \/ Settled(tasks[t]) /\ tasks[t].owner # 0 /\ ~tasks[t].released

\* where a call continues once its flush() has returned normally
AfterFlush(rec) ==
  IF rec.kind = "append" /\ rec.rest # <<>>
    THEN [rec EXCEPT !.pc = "loopNext"]
    ELSE [rec EXCEPT !.pc = "resolved"]

\* addToBatch(event) that uses unshift instead of push (a plausible slip)
addToBatchFront(t, rec, e, h) ==
  /\ batch' = <<e>> \o batch
  /\ stats' = [stats EXCEPT !.totalEvents = @ + 1, !.pendingEvents = @ + 1]
  /\ accepted' = Append(accepted, [ev |-> e, destroying |-> isDestroying])
  /\ tasks' = PutTask(t, [rec EXCEPT !.pc = "sfAwait",
                                     !.sf = shouldFlush(<<e>> \o batch, h)])

\* addToBatch(event) up to its first await; h is the heap at that moment
addToBatch(t, rec, e, h) ==
  /\ batch' = Append(batch, e)
  /\ stats' = [stats EXCEPT !.totalEvents = @ + 1, !.pendingEvents = @ + 1]
  /\ accepted' = Append(accepted, [ev |-> e, destroying |-> isDestroying])
  /\ tasks' = PutTask(t, [rec EXCEPT !.pc = "sfAwait",
                                     !.sf = shouldFlush(Append(batch, e), h)])

\* flush() that drops the timer handle without clearTimeout (a plausible slip)
flushNoClear(t, rec, timer, live) ==
  IF batch = <<>>
    THEN /\ tasks' = PutTask(t, AfterFlush(rec))
         /\ flushTimer' = timer
         /\ armed' = live
         /\ UNCHANGED <<batch, handed>>
    ELSE /\ batch' = <<>>
         /\ flushTimer' = FALSE
         /\ armed' = live
         /\ tasks' = PutTask(t, [rec EXCEPT !.pc = "processing",
                                            !.bid = Len(handed) + 1])
         /\ handed' = Append(handed, NewBatch(t, batch))

\* flush() without the early return on an empty buffer (a plausible slip)
flushNoEmptyCheck(t, rec, timer, live) ==
  /\ batch' = <<>>
  /\ flushTimer' = FALSE
  /\ armed' = IF timer THEN live - 1 ELSE live
  /\ tasks' = PutTask(t, [rec EXCEPT !.pc = "processing",
                                     !.bid = Len(handed) + 1])
  /\ handed' = Append(handed, NewBatch(t, batch))

\* flush() that hands the buffer over without replacing it (a plausible
\* slip)
flushNoSwap(t, rec, timer, live) ==
  IF batch = <<>>
    THEN /\ tasks' = PutTask(t, AfterFlush(rec))
         /\ flushTimer' = timer
         /\ armed' = live
         /\ UNCHANGED <<batch, handed>>
    ELSE /\ batch' = batch
         /\ flushTimer' = FALSE
         /\ armed' = IF timer THEN live - 1 ELSE live
         /\ tasks' = PutTask(t, [rec EXCEPT !.pc = "processing",
                                            !.bid = Len(handed) + 1])
         /\ handed' = Append(handed, NewBatch(t, batch))

\* flush() up to `await this.processBatch(batchToFlush)`; timer and live
\* are the values of flushTimer and armed when flush() is entered
flush(t, rec, timer, live) ==
  IF batch = <<>>
    THEN /\ tasks' = PutTask(t, AfterFlush(rec))
         /\ flushTimer' = timer
         /\ armed' = live
         /\ UNCHANGED <<batch, handed>>
    ELSE /\ batch' = <<>>
         /\ flushTimer' = FALSE
         /\ armed' = IF timer THEN live - 1 ELSE live
         /\ tasks' = PutTask(t, [rec EXCEPT !.pc = "processing",
                                            !.bid = Len(handed) + 1])
         /\ handed' = Append(handed, NewBatch(t, batch))

\* scheduleFlush() without the empty-buffer test (a plausible slip)
scheduleFlushNoEmptyCheck == IF flushTimer THEN flushTimer ELSE TRUE

\* scheduleFlush() that never arms the timer (a plausible slip)
scheduleFlushNever == flushTimer

\* scheduleFlush(): the value of flushTimer afterwards
scheduleFlush == IF flushTimer \/ batch = <<>> THEN flushTimer ELSE TRUE

\* retryBatch(batch, attempt) that forgets stats.retries++ (a plausible slip)
retryBatchNoCount(rec, b, attempt) ==
  IF attempt >= Nullish(config.maxRetries, 3)
    THEN [rec |-> [rec EXCEPT !.pc = "rejected"],
          b |-> [b EXCEPT !.state = "FAILED_TERMINAL"],
          stats |-> stats,
          pool |-> returnEventsToPool(PoolState, b.events)]
    ELSE [rec |-> [rec EXCEPT !.pc = "backoff", !.attempt = attempt,
                              !.delay = backoffDelay(attempt)],
          b |-> [b EXCEPT !.state = "RETRYING", !.retriesMade = @ + 1],
          stats |-> stats,
          pool |-> PoolState]

\* retryBatch(batch, attempt) comparing with > (a plausible slip)
retryBatchOffByOne(rec, b, attempt) ==
  IF attempt > Nullish(config.maxRetries, 3)
    THEN [rec |-> [rec EXCEPT !.pc = "rejected"],
          b |-> [b EXCEPT !.state = "FAILED_TERMINAL"],
          stats |-> stats,
          pool |-> returnEventsToPool(PoolState, b.events)]
    ELSE [rec |-> [rec EXCEPT !.pc = "backoff", !.attempt = attempt,
                              !.delay = backoffDelay(attempt)],
          b |-> [b EXCEPT !.state = "RETRYING", !.retriesMade = @ + 1],
          stats |-> [stats EXCEPT !.retries = @ + 1],
          pool |-> PoolState]

\* retryBatch(batch, attempt) up to its first await: the call record, the
\* batch record, the stats and the pool afterwards
retryBatch(rec, b, attempt) ==
  IF attempt >= Nullish(config.maxRetries, 3)
    THEN [rec |-> [rec EXCEPT !.pc = "rejected"],
          b |-> [b EXCEPT !.state = "FAILED_TERMINAL"],
          stats |-> stats,
          pool |-> returnEventsToPool(PoolState, b.events)]
    ELSE [rec |-> [rec EXCEPT !.pc = "backoff", !.attempt = attempt,
                              !.delay = backoffDelay(attempt)],
          b |-> [b EXCEPT !.state = "RETRYING", !.retriesMade = @ + 1],
          stats |-> [stats EXCEPT !.retries = @ + 1],
          pool |-> PoolState]

(* ------------------------ FileAsyncBatchAppender ----------------------- *)
\* the sink after construction: append is the `append` option, exists says
\* whether the log file is there already (then it holds one earlier line)
InitSink(append, exists) ==
  [fileInitialized |-> FALSE, appendToFile |-> append, exists |-> exists,
   file |-> IF exists THEN <<"old">> ELSE <<>>, inv |-> <<>>]

\* an event with no message, no timestamp and the data value 0
BareParams ==
  [level |-> "info", message |-> Undefined, data |-> FalsyData,
   context |-> Undefined, error |-> Undefined, timestamp |-> 0]

\* the events handed to the file sink
SinkEvents == {PlainParams, PooledParams, BareParams}

\* the batches handed to the file sink
SinkBatches == UNION {[1..n -> SinkEvents] : n \in 1..MaxBatchLen}

\* defaultFormatter(event): the parts of the line
defaultFormatter(ev) ==
  [timestamp |-> IF Truthy(ev.timestamp) THEN ev.timestamp ELSE Now,
   level |-> CASE ev.level = "info" -> " INFO"
               [] ev.level = "warn" -> " WARN"
               [] ev.level = "error" -> "ERROR"
               [] OTHER -> ev.level,
   context |-> IF Truthy(ev.context) THEN ev.context ELSE Undefined,
   message |-> ev.message,
   data |-> IF ~Truthy(ev.data) THEN Undefined
            ELSE IF ev.data = Circular THEN Circular
            ELSE SerializedLength(ev.data)]

\* events.map(formatter) in reverse order (a plausible slip)
formatLinesReversed(events) ==
  [i \in 1..Len(events) |-> defaultFormatter(events[Len(events) + 1 - i])]

\* events.map(event => this.formatter(event)); content is these lines,
\* each followed by a newline
formatLines(events) == [i \in 1..Len(events) |-> defaultFormatter(events[i])]

\* processBatch from `const lines = ...` to the call of appendFile
callAppendFile(rec) ==
  [rec EXCEPT !.pc = "write", !.writes = @ + 1,
              !.content = formatLines(rec.events)]

\* One record per processBatch invocation of the file sink.
\*   pc: "mkdir"   initialize() awaits mkdir
\*       "access"  initialize() awaits access (append mode)
\*       "create"  initialize() awaits writeFile(filePath, '')
\*       "write"   processBatch awaits appendFile(filePath, content)
\*       "resolved" / "rejected"; cause: the call that made it reject
\*   writes: appendFile calls made, content: the lines handed to appendFile
processBatch(events) ==
  LET rec == [events |-> events, pc |-> "mkdir", writes |-> 0,
              content |-> <<>>, cause |-> "none"]
  IN IF sink.fileInitialized THEN callAppendFile(rec) ELSE rec

\* processBatch(events) is invoked
Invoke ==
  /\ Len(sink.inv) < MaxInvocations
  /\ \E events \in SinkBatches :
       sink' = [sink EXCEPT !.inv = Append(@, processBatch(events))]

\* initialize(): mkdir resolved
MkdirOk(k) ==
  /\ sink.inv[k].pc = "mkdir"
  /\ sink' = [sink EXCEPT !.inv[k].pc =
                 IF sink.appendToFile THEN "access" ELSE "create"]

\* initialize(): access settled; the file is created only if it is missing
Access(k) ==
  /\ sink.inv[k].pc = "access"
  /\ sink' = IF sink.exists
               THEN [sink EXCEPT !.fileInitialized = TRUE,
                                 !.inv[k] = callAppendFile(@)]
               ELSE [sink EXCEPT !.inv[k].pc = "create"]

\* initialize(): writeFile(filePath, '') resolved
Create(k) ==
  /\ sink.inv[k].pc = "create"
  /\ sink' = [sink EXCEPT !.file = <<>>, !.exists = TRUE,
                          !.fileInitialized = TRUE,
                          !.inv[k] = callAppendFile(@)]

\* initialize(): mkdir or writeFile rejected, so processBatch rejects
InitFails(k) ==
  /\ sink.inv[k].pc \in {"mkdir", "create"}
  /\ sink' = [sink EXCEPT !.inv[k].pc = "rejected", !.inv[k].cause = "init"]

\* appendFile resolved
WriteOk(k) ==
  /\ sink.inv[k].pc = "write"
  /\ sink' = [sink EXCEPT !.file = @ \o sink.inv[k].content,
                          !.exists = TRUE,
                          !.inv[k].pc = "resolved"]

\* appendFile rejected, having written none or some of the lines
WriteFails(k) ==
  /\ sink.inv[k].pc = "write"
  /\ \E n \in 0..(Len(sink.inv[k].content) - 1) :
       sink' = [sink EXCEPT !.file = @ \o SubSeq(sink.inv[k].content, 1, n),
                           !.exists = @ \/ n > 0,
                           !.inv[k].pc = "rejected",
                           !.inv[k].cause = "write"]

sinkFrame == <<poolVars, config, batch, flushTimer, armed, stats,
               isDestroying, tasks, obsVars>>

NextFile ==
  \/ Invoke /\ UNCHANGED sinkFrame
  \/ \E k \in 1..Len(sink.inv) : MkdirOk(k) /\ UNCHANGED sinkFrame
  \/ \E k \in 1..Len(sink.inv) : Access(k) /\ UNCHANGED sinkFrame
  \/ \E k \in 1..Len(sink.inv) : Create(k) /\ UNCHANGED sinkFrame
  \/ \E k \in 1..Len(sink.inv) : InitFails(k) /\ UNCHANGED sinkFrame
  \/ \E k \in 1..Len(sink.inv) : WriteOk(k) /\ UNCHANGED sinkFrame
  \/ \E k \in 1..Len(sink.inv) : WriteFails(k) /\ UNCHANGED sinkFrame

(* ------------------------------ Init ----------------------------------- *)
InitSinkWith(cfgs, sinks) ==
  /\ pool = <<>>
  /\ created = 0
  /\ reused = 0
  /\ active = 0
  /\ evt = <<>>
  /\ config \in cfgs
  /\ batch = <<>>
  /\ flushTimer = FALSE
  /\ armed = 0
  /\ stats = InitStats
  /\ isDestroying = FALSE
  /\ sink \in sinks
  /\ tasks = <<>>
  /\ handed = <<>>
  /\ flushedTotal = 0
  /\ sinkFails = 0
  /\ drains = 0
  /\ opLog = <<>>
  /\ accepted = <<>>

\* the engine over an abstract sink; the file sink's state is left alone
InitWith(cfgs) == InitSinkWith(cfgs, {InitSink(TRUE, FALSE)})

Init == InitWith(Configs)

\* the file sink on its own, for both values of the append option and
\* with the log file present or missing
SpecFile ==
  /\ InitSinkWith({[maxBatchSize |-> 1, maxMemoryUsage |-> Undefined,
                    enableRetry |-> FALSE, maxRetries |-> Undefined]},
                  {InitSink(a, e) : a \in BOOLEAN, e \in BOOLEAN})
  /\ [][NextFile]_vars

(* ------------------------- producer calls ------------------------------ *)
\* append(message) without the isDestroying check (a plausible slip)
appendNoGuard(t, rec, evs, h) ==
  addToBatch(t, [rec EXCEPT !.rest = Tail(evs)], Head(evs), h)

\* append(message) up to its first await, for a call record rec whose
\* events are evs; h is the heap at that moment
append(t, rec, evs, h) ==
  IF isDestroying
    THEN /\ tasks' = PutTask(t, [rec EXCEPT !.pc = "resolved"])
         /\ UNCHANGED <<batch, stats, accepted>>
    ELSE addToBatch(t, [rec EXCEPT !.rest = Tail(evs)], Head(evs), h)

\* the documented producer: acquire, populate, `await appender.append(event)`
LogWithPooling(limit) ==
  /\ Calls < limit
  /\ LET a == acquire(PoolState)
         p == [a.st EXCEPT !.evt[a.ev] = populate(a.st.evt[a.ev], PooledParams)]
     IN /\ SetPool(p)
        /\ append(Len(tasks) + 1, NewTask("append", a.ev), <<a.ev>>, p.evt)
  /\ UNCHANGED <<config, sink, flushTimer, armed, isDestroying, handed, flushedTotal,
                 sinkFails, drains, opLog>>

\* the finally block of the documented producer: release(event)
ProducerFinally(t) ==
  /\ Settled(tasks[t])
  /\ tasks[t].owner # 0
  /\ ~tasks[t].released
  /\ SetPool(release(PoolState, tasks[t].owner))
  /\ tasks' = [tasks EXCEPT ![t].released = TRUE]
  /\ UNCHANGED <<engineVars, obsVars>>

\* append(events) with an array of n fresh plain LogEvent literals
AppendPlain(limit, maxn) ==
  /\ Calls < limit
  /\ \E n \in 1..maxn :
       LET h == evt \o [i \in 1..n |-> plainEvent(PlainParams)]
           evs == [i \in 1..n |-> Len(evt) + i]
       IN /\ evt' = h
          /\ append(Len(tasks) + 1, NewTask("append", 0), evs, h)
  /\ UNCHANGED <<pool, created, reused, active, config, sink, flushTimer, armed,
                 isDestroying, handed, flushedTotal, sinkFails, drains, opLog>>

\* forceFlush()
ForceFlush(limit) ==
  /\ Calls < limit
  /\ flush(Len(tasks) + 1, NewTask("force", 0), flushTimer, armed)
  /\ UNCHANGED <<poolVars, config, sink, stats, isDestroying, flushedTotal,
                 sinkFails, drains, opLog, accepted>>

\* destroy() without the isDestroying guard (a plausible slip)
destroyNoGuard(limit) ==
  /\ Calls < limit
  /\ isDestroying' = TRUE
  /\ flush(Len(tasks) + 1, NewTask("destroy", 0), FALSE,
                     IF flushTimer THEN armed - 1 ELSE armed)
  /\ drains' = drains + 1
  /\ UNCHANGED <<poolVars, config, sink, stats, flushedTotal, sinkFails, opLog, accepted>>

\* destroy() that forgets the final flush() (a plausible slip)
destroyNoFlush(limit) ==
  /\ Calls < limit
  /\ IF isDestroying
       THEN /\ tasks' = Append(tasks, NewTask("destroy", 0))
            /\ UNCHANGED <<batch, flushTimer, armed, isDestroying, handed, drains>>
       ELSE /\ isDestroying' = TRUE
            /\ flushTimer' = FALSE
            /\ armed' = IF flushTimer THEN armed - 1 ELSE armed
            /\ tasks' = Append(tasks, NewTask("destroy", 0))
            /\ drains' = drains + 1
            /\ UNCHANGED <<batch, handed>>
  /\ UNCHANGED <<poolVars, config, sink, stats, flushedTotal, sinkFails, opLog, accepted>>

\* destroy()
destroy(limit) ==
  /\ Calls < limit
  /\ IF isDestroying
       THEN /\ tasks' = Append(tasks, NewTask("destroy", 0))
            /\ UNCHANGED <<batch, flushTimer, armed, isDestroying, handed, drains>>
       ELSE /\ isDestroying' = TRUE
            /\ flush(Len(tasks) + 1, NewTask("destroy", 0), FALSE,
                     IF flushTimer THEN armed - 1 ELSE armed)
            /\ drains' = drains + 1
  /\ UNCHANGED <<poolVars, config, sink, stats, flushedTotal, sinkFails, opLog, accepted>>

(* ------------------------- continuations ------------------------------- *)
\* addToBatch that flushes whatever shouldFlush() returned (a plausible
\* slip)
ResumeAddToBatchAlwaysFlush(t) ==
  /\ tasks[t].pc = "sfAwait"
  /\ flush(t, tasks[t], flushTimer, armed)
  /\ UNCHANGED <<poolVars, config, sink, stats, isDestroying, flushedTotal,
                 sinkFails, drains, opLog, accepted>>

\* addToBatch resumes after `await this.shouldFlush()`
ResumeAddToBatch(t) ==
  /\ tasks[t].pc = "sfAwait"
  /\ IF tasks[t].sf
       THEN flush(t, tasks[t], flushTimer, armed)
       ELSE /\ flushTimer' = scheduleFlush
            /\ armed' = IF scheduleFlush /\ ~flushTimer THEN armed + 1 ELSE armed
            /\ tasks' = [tasks EXCEPT ![t] = AfterFlush(tasks[t])]
            /\ UNCHANGED <<batch, handed>>
  /\ UNCHANGED <<poolVars, config, sink, stats, isDestroying, flushedTotal,
                 sinkFails, drains, opLog, accepted>>

\* append's for-loop takes its next event
LoopNext(t) ==
  /\ tasks[t].pc = "loopNext"
  /\ addToBatch(t, [tasks[t] EXCEPT !.rest = Tail(@)], Head(tasks[t].rest), evt)
  /\ UNCHANGED <<poolVars, config, sink, flushTimer, armed, isDestroying, handed,
                 flushedTotal, sinkFails, drains, opLog>>

\* the timer callback of scheduleFlush
TimerFire ==
  /\ armed > 0
  /\ ~MicrotaskPending
  /\ flush(Len(tasks) + 1, NewTask("timer", 0), FALSE, armed - 1)
  /\ UNCHANGED <<poolVars, config, sink, stats, isDestroying, flushedTotal,
                 sinkFails, drains, opLog, accepted>>

\* flush(): processBatch resolved (the try block after the await)
SinkResolve(t) ==
  /\ tasks[t].pc = "processing"
  /\ LET b == handed[tasks[t].bid]
         n == Len(b.events)
     IN /\ stats' = updateAverageBatchSize(
                      [stats EXCEPT !.batchesFlushed = @ + 1,
                                    !.pendingEvents = Max(0, @ - n)], n)
        /\ flushedTotal' = flushedTotal + n
        /\ SetPool(returnEventsToPool(PoolState, b.events))
        /\ handed' = [handed EXCEPT ![tasks[t].bid] =
                        [b EXCEPT !.state = "SUCCEEDED", !.counted = @ + 1]]
  /\ tasks' = [tasks EXCEPT ![t] = AfterFlush(tasks[t])]
  /\ UNCHANGED <<config, sink, batch, flushTimer, armed, isDestroying, sinkFails, drains,
                 opLog, accepted>>

\* flush()'s catch block defaulting maxRetries to 3 (a plausible slip)
flushCatchDefault3(t) ==
  /\ tasks[t].pc = "processing"
  /\ sinkFails' = sinkFails + 1
  /\ LET b == [handed[tasks[t].bid] EXCEPT !.fails = @ + 1]
         st == [stats EXCEPT !.errors = @ + 1]
     IN IF config.enableRetry /\ Nullish(config.maxRetries, 3) > 0
          THEN LET r == retryBatch(tasks[t], b, 0)
               IN /\ stats' = [r.stats EXCEPT !.errors = st.errors]
                  /\ SetPool(r.pool)
                  /\ tasks' = [tasks EXCEPT ![t] = r.rec]
                  /\ handed' = [handed EXCEPT ![tasks[t].bid] = r.b]
          ELSE /\ stats' = st
               /\ SetPool(returnEventsToPool(PoolState, b.events))
               /\ tasks' = [tasks EXCEPT ![t].pc = "rejected"]
               /\ handed' = [handed EXCEPT ![tasks[t].bid] =
                               [b EXCEPT !.state = "FAILED_TERMINAL"]]
  /\ UNCHANGED <<config, sink, batch, flushTimer, armed, isDestroying, flushedTotal,
                 drains, opLog, accepted>>

\* flush(): processBatch rejected (the catch block)
flushCatch(t) ==
  /\ tasks[t].pc = "processing"
  /\ sinkFails' = sinkFails + 1
  /\ LET b == [handed[tasks[t].bid] EXCEPT !.fails = @ + 1]
         st == [stats EXCEPT !.errors = @ + 1]
     IN IF config.enableRetry /\ Nullish(config.maxRetries, 0) > 0
          THEN LET r == retryBatch(tasks[t], b, 0)
               IN /\ stats' = [r.stats EXCEPT !.errors = st.errors]
                  /\ SetPool(r.pool)
                  /\ tasks' = [tasks EXCEPT ![t] = r.rec]
                  /\ handed' = [handed EXCEPT ![tasks[t].bid] = r.b]
          ELSE /\ stats' = st
               /\ SetPool(returnEventsToPool(PoolState, b.events))
               /\ tasks' = [tasks EXCEPT ![t].pc = "rejected"]
               /\ handed' = [handed EXCEPT ![tasks[t].bid] =
                               [b EXCEPT !.state = "FAILED_TERMINAL"]]
  /\ UNCHANGED <<config, sink, batch, flushTimer, armed, isDestroying, flushedTotal,
                 drains, opLog, accepted>>

\* the sink rejects the first processBatch call of a batch
SinkReject(t) ==
  /\ sinkFails < MaxFails
  /\ flushCatch(t)

\* retryBatch() invoking processBatch twice without awaiting (a plausible slip)
BackoffFireTwice(t) ==
  /\ tasks[t].pc = "backoff"
  /\ ~MicrotaskPending
  /\ tasks' = [tasks EXCEPT ![t].pc = "retrying"]
  /\ handed' = [handed EXCEPT ![tasks[t].bid].state = "FLUSHING",
                              ![tasks[t].bid].calls = @ + 2,
                              ![tasks[t].bid].sent =
                                 Append(@, handed[tasks[t].bid].events)]
  /\ UNCHANGED <<poolVars, engineVars, flushedTotal, sinkFails, drains, opLog, accepted>>

\* retryBatch() giving up its retry once destroy() was called (a plausible slip)
BackoffFireAborted(t) ==
  /\ tasks[t].pc = "backoff"
  /\ ~isDestroying
  /\ ~MicrotaskPending
  /\ tasks' = [tasks EXCEPT ![t].pc = "retrying"]
  /\ handed' = [handed EXCEPT ![tasks[t].bid].state = "FLUSHING",
                              ![tasks[t].bid].calls = @ + 1,
                              ![tasks[t].bid].sent =
                                 Append(@, handed[tasks[t].bid].events)]
  /\ UNCHANGED <<poolVars, engineVars, flushedTotal, sinkFails, drains, opLog, accepted>>

\* retryBatch(): the delay elapsed, processBatch is invoked again
BackoffFire(t) ==
  /\ tasks[t].pc = "backoff"
  /\ ~MicrotaskPending
  /\ tasks' = [tasks EXCEPT ![t].pc = "retrying"]
  /\ handed' = [handed EXCEPT ![tasks[t].bid].state = "FLUSHING",
                              ![tasks[t].bid].calls = @ + 1,
                              ![tasks[t].bid].sent =
                                 Append(@, handed[tasks[t].bid].events)]
  /\ UNCHANGED <<poolVars, engineVars, flushedTotal, sinkFails, drains, opLog, accepted>>

\* retryBatch() resolved, but flush()'s catch rethrows (a plausible slip)
RetryResolveRethrow(t) ==
  /\ tasks[t].pc = "retrying"
  /\ LET b == handed[tasks[t].bid]
         n == Len(b.events)
     IN /\ stats' = updateAverageBatchSize(
                      [stats EXCEPT !.batchesFlushed = @ + 1], n)
        /\ flushedTotal' = flushedTotal + n
        /\ SetPool(returnEventsToPool(PoolState, b.events))
        /\ handed' = [handed EXCEPT ![tasks[t].bid] =
                        [b EXCEPT !.state = "SUCCEEDED", !.counted = @ + 1]]
  /\ tasks' = [tasks EXCEPT ![t].pc = "rejected"]
  /\ UNCHANGED <<config, sink, batch, flushTimer, armed, isDestroying, sinkFails, drains,
                 opLog, accepted>>

\* retryBatch(): processBatch resolved
RetryResolve(t) ==
  /\ tasks[t].pc = "retrying"
  /\ LET b == handed[tasks[t].bid]
         n == Len(b.events)
     IN /\ stats' = updateAverageBatchSize(
                      [stats EXCEPT !.batchesFlushed = @ + 1], n)
        /\ flushedTotal' = flushedTotal + n
        /\ SetPool(returnEventsToPool(PoolState, b.events))
        /\ handed' = [handed EXCEPT ![tasks[t].bid] =
                        [b EXCEPT !.state = "SUCCEEDED", !.counted = @ + 1]]
  /\ tasks' = [tasks EXCEPT ![t] = AfterFlush(tasks[t])]
  /\ UNCHANGED <<config, sink, batch, flushTimer, armed, isDestroying, sinkFails, drains,
                 opLog, accepted>>

\* retryBatch()'s catch that also counts an error (a plausible slip)
retryCatchCountsError(t) ==
  /\ tasks[t].pc = "retrying"
  /\ sinkFails' = sinkFails + 1
  /\ LET r == retryBatch(tasks[t],
                         [handed[tasks[t].bid] EXCEPT !.fails = @ + 1],
                         tasks[t].attempt + 1)
     IN /\ stats' = [r.stats EXCEPT !.errors = @ + 1]
        /\ SetPool(r.pool)
        /\ tasks' = [tasks EXCEPT ![t] = r.rec]
        /\ handed' = [handed EXCEPT ![tasks[t].bid] = r.b]
  /\ UNCHANGED <<config, sink, batch, flushTimer, armed, isDestroying, flushedTotal,
                 drains, opLog, accepted>>

\* retryBatch(): processBatch rejected, recurse with attempt + 1
retryCatch(t) ==
  /\ tasks[t].pc = "retrying"
  /\ sinkFails' = sinkFails + 1
  /\ LET r == retryBatch(tasks[t],
                         [handed[tasks[t].bid] EXCEPT !.fails = @ + 1],
                         tasks[t].attempt + 1)
     IN /\ stats' = r.stats
        /\ SetPool(r.pool)
        /\ tasks' = [tasks EXCEPT ![t] = r.rec]
        /\ handed' = [handed EXCEPT ![tasks[t].bid] = r.b]
  /\ UNCHANGED <<config, sink, batch, flushTimer, armed, isDestroying, flushedTotal,
                 drains, opLog, accepted>>

\* the sink rejects a retried processBatch call
RetryReject(t) ==
  /\ sinkFails < MaxFails
  /\ retryCatch(t)

Next ==
  \/ LogWithPooling(MaxCalls)
  \/ AppendPlain(MaxCalls, MaxArr)
  \/ ForceFlush(MaxCalls)
  \/ destroy(MaxCalls)
  \/ TimerFire
  \/ \E t \in 1..Len(tasks) : ProducerFinally(t)
  \/ \E t \in 1..Len(tasks) : ResumeAddToBatch(t)
  \/ \E t \in 1..Len(tasks) : LoopNext(t)
  \/ \E t \in 1..Len(tasks) : SinkResolve(t)
  \/ \E t \in 1..Len(tasks) : SinkReject(t)
  \/ \E t \in 1..Len(tasks) : BackoffFire(t)
  \/ \E t \in 1..Len(tasks) : RetryResolve(t)
  \/ \E t \in 1..Len(tasks) : RetryReject(t)

Spec == Init /\ [][Next]_vars

\* the scheduling Node.js guarantees: a runnable continuation runs, an armed
\* timer fires; the sink and the callers are free never to act again
Fairness ==
  /\ WF_vars(TimerFire)
  /\ WF_vars(\E t \in 1..Len(tasks) : ProducerFinally(t))
  /\ WF_vars(\E t \in 1..Len(tasks) : ResumeAddToBatch(t))
  /\ WF_vars(\E t \in 1..Len(tasks) : LoopNext(t))
  /\ WF_vars(\E t \in 1..Len(tasks) : BackoffFire(t))

FairSpec == Spec /\ Fairness

\* every processBatch call eventually settles
SinkSettles ==
  /\ WF_vars(\E t \in 1..Len(tasks) : SinkResolve(t) \/ SinkReject(t))
  /\ WF_vars(\E t \in 1..Len(tasks) : RetryResolve(t) \/ RetryReject(t))

SettleSpec == Spec /\ Fairness /\ SinkSettles

(* ------------------- the pool on its own -------------------------------- *)
PoolOp(op, e, wasPooled) ==
  /\ Len(opLog) < MaxPoolOps
  /\ opLog' = Append(opLog, [op |-> op, ev |-> e, wasPooled |-> wasPooled])
  /\ UNCHANGED <<engineVars, tasks, handed, flushedTotal, sinkFails, drains,
                 accepted>>

\* a caller takes an event from the pool and keeps it
Acquire ==
  LET a == acquire(PoolState)
  IN /\ PoolOp("acquire", a.ev, pool # <<>>)
     /\ SetPool(a.st)

\* a caller writes the fields of an event it holds
Populate ==
  \E e \in 1..Len(evt), params \in ParamSets :
    /\ ~evt[e].inPool
    /\ PoolOp("populate", e, FALSE)
    /\ evt' = [evt EXCEPT ![e] = populate(@, params)]
    /\ UNCHANGED <<pool, created, reused, active>>

\* a caller releases an event, whether or not it was released before
Release ==
  \E e \in 1..Len(evt) :
    /\ PoolOp("release", e, evt[e].inPool)
    /\ SetPool(release(PoolState, e))

\* prewarm(count)
Prewarm ==
  \E count \in 0..MaxPrewarm :
    /\ PoolOp("prewarm", count, FALSE)
    /\ SetPool(prewarm(PoolState, count))

\* clear()
Clear ==
  /\ PoolOp("clear", 0, FALSE)
  /\ SetPool(clear(PoolState))

NextPool == Acquire \/ Populate \/ Release \/ Prewarm \/ Clear

SpecPool == InitWith({[maxBatchSize |-> 1, maxMemoryUsage |-> Undefined,
                       enableRetry |-> FALSE, maxRetries |-> Undefined]})
            /\ [][NextPool]_vars

(* ------------------- the sequential producer --------------------------- *)
AllSettled == \A t \in 1..Len(tasks) : Settled(tasks[t])

Drained == \E t \in 1..Len(tasks) : tasks[t].kind \in {"force", "destroy"}

\* `await appender.append(event)`, one event at a time
SeqAppend ==
  /\ AllSettled
  /\ ~Drained
  /\ AppendPlain(SeqN, 1)

\* the final drain once the producer has stopped: forceFlush()
SeqForceFlush ==
  /\ AllSettled
  /\ ~Drained
  /\ ForceFlush(SeqN + 1)

\* the final drain once the producer has stopped: destroy()
SeqDestroy ==
  /\ AllSettled
  /\ ~Drained
  /\ destroy(SeqN + 1)

NextSeq ==
  \/ SeqAppend
  \/ SeqForceFlush
  \/ SeqDestroy
  \/ \E t \in 1..Len(tasks) : ResumeAddToBatch(t)
  \/ \E t \in 1..Len(tasks) : SinkResolve(t)

SpecSeq == InitWith(SeqConfigs) /\ [][NextSeq]_vars

(* ------------------- the sink that always fails ------------------------ *)
\* the callers append one event per call
NextFail ==
  \/ LogWithPooling(MaxFailCalls)
  \/ AppendPlain(MaxFailCalls, 1)
  \/ ForceFlush(MaxFailCalls)
  \/ TimerFire
  \/ \E t \in 1..Len(tasks) : ProducerFinally(t)
  \/ \E t \in 1..Len(tasks) : ResumeAddToBatch(t)
  \/ \E t \in 1..Len(tasks) : flushCatch(t)
  \/ \E t \in 1..Len(tasks) : BackoffFire(t)
  \/ \E t \in 1..Len(tasks) : retryCatch(t)

SpecFail == InitWith(FailConfigs) /\ [][NextFail]_vars

(* ------------------- the memory threshold ------------------------------ *)
\* configurations with and without a memory threshold; 100 is the estimate
\* of an event with no message, context or data
MemConfigs ==
  { [maxBatchSize |-> b, maxMemoryUsage |-> mem, enableRetry |-> FALSE,
     maxRetries |-> Undefined] :
      b \in 2..3, mem \in {Undefined, 0, 102, 204, 306} }

\* the events appended: message "" or one character, context absent or one
\* character, data absent, 0, a value serialized to one character, or
\* circular
MemParams ==
  { [level |-> "info", message |-> msg, data |-> d, context |-> ctx,
     error |-> Undefined, timestamp |-> 1] :
      msg \in {0, 1}, ctx \in {Undefined, 1},
      d \in {Undefined, FalsyData, 1, Circular} }

\* `await appender.append(event)` with a fresh plain event
MemAppend ==
  /\ AllSettled
  /\ Calls < MaxMemCalls
  /\ \E params \in MemParams :
       LET h == Append(evt, plainEvent(params))
       IN /\ evt' = h
          /\ append(Len(tasks) + 1, NewTask("append", 0), <<Len(evt) + 1>>, h)
  /\ UNCHANGED <<pool, created, reused, active, config, sink, flushTimer, armed,
                 isDestroying, handed, flushedTotal, sinkFails, drains, opLog>>

NextMem ==
  \/ MemAppend
  \/ TimerFire
  \/ \E t \in 1..Len(tasks) : ResumeAddToBatch(t)
  \/ \E t \in 1..Len(tasks) : SinkResolve(t)

SpecMem == InitWith(MemConfigs) /\ [][NextMem]_vars

(* ======================= properties ==================================== *)
RECURSIVE SumSeq(_)
SumSeq(q) == IF q = <<>> THEN 0 ELSE Head(q) + SumSeq(Tail(q))

Batches == 1..Len(handed)

Tasks == 1..Len(tasks)

RetryEnabled == config.enableRetry /\ Nullish(config.maxRetries, 0) > 0

NonTerminal(i) == handed[i].state \in {"FLUSHING", "RETRYING"}

Poolable(q) == {e \in Range(q) : evt[e].poolable}

\* C1: accounting identity -- totalEvents equals the number of events in
\* the batches counted in batchesFlushed plus pendingEvents, in every state.
C1_AccountingIdentity ==
  stats.totalEvents = flushedTotal + stats.pendingEvents

\* C2: with no memory trigger configured, every batch handed to
\* processBatch has at most maxBatchSize events.
C2_BatchBounded ==
  config.maxMemoryUsage \in {Undefined, 0} =>
    \A i \in Batches : Len(handed[i].events) <= config.maxBatchSize

\* C3: exclusive ownership -- no event that is in the pending buffer or in
\* a batch that has not reached a terminal state is in the pool's free list
\* or carries the "pooled" marker.
C3_ExclusiveOwnership ==
  \A e \in Poolable(batch) \cup
           UNION {Poolable(handed[i].events) : i \in {j \in Batches : NonTerminal(j)}} :
    /\ e \notin Range(pool)
    /\ ~evt[e].inPool

\* C4: time-triggered flush -- whenever the pending buffer is non-empty, a
\* flush timer is armed or an addToBatch continuation is about to flush or
\* to arm it; so an accepted event that waits in the buffer is eventually
\* handed to processBatch although no caller acts again (the continuations
\* run and the armed timer fires).
C4_TimerLiveness ==
  /\ [](batch # <<>> =>
          flushTimer \/ \E t \in Tasks : tasks[t].pc = "sfAwait")
  /\ (batch # <<>>) ~> (batch = <<>>)

C4_Witness ==
  /\ \E i \in Batches : tasks[handed[i].task].kind = "timer"
  /\ batch = <<>>

\* the mutable fields of an event are at the defaults of reset()
IsDefault(ev) ==
  /\ ev.message = Undefined
  /\ ev.data = Undefined
  /\ ev.context = Undefined
  /\ ev.error = Undefined
  /\ ev.level = "info"
  /\ ev.timestamp = 0

SumRetriesMade == SumSeq([i \in Batches |-> handed[i].retriesMade])

SumCounted == SumSeq([i \in Batches |-> handed[i].counted])

\* C5: retry success -- a batch that succeeds after k >= 1 rejected attempts
\* took exactly k retries (k + 1 processBatch calls), stats.retries grew by
\* k for it, it is counted once in batchesFlushed, its flush() call returns
\* normally and its pooled events carry the pooled marker afterwards.
C5_RetrySuccess ==
  /\ [](\A i \in Batches :
          handed[i].state = "SUCCEEDED" /\ handed[i].fails >= 1 =>
            /\ handed[i].retriesMade = handed[i].fails
            /\ handed[i].calls = handed[i].fails + 1
            /\ handed[i].counted = 1)
  /\ [](stats.retries = SumRetriesMade /\ stats.batchesFlushed = SumCounted)
  /\ [][\A t \in Tasks :
          tasks[t].pc = "retrying" /\ handed'[tasks[t].bid].state = "SUCCEEDED" =>
            /\ tasks'[t].pc \in {"resolved", "loopNext"}
            /\ stats'.batchesFlushed = stats.batchesFlushed + 1
            /\ stats'.retries = stats.retries
            /\ \A e \in Poolable(handed[tasks[t].bid].events) :
                 evt'[e].inPool /\ IsDefault(evt'[e])]_vars

C5_Witness ==
  \E i \in Batches :
    /\ handed[i].state = "SUCCEEDED"
    /\ handed[i].fails = 2
    /\ stats.retries = 2
    /\ Poolable(handed[i].events) # {}
    /\ \A e \in Poolable(handed[i].events) : evt[e].inPool

\* C6: failure with retry disabled -- when processBatch rejects and no
\* retry is configured, the flush() call rejects, errors grows by one,
\* batchesFlushed is unchanged, processBatch is never invoked again for the
\* batch, and each pooled event of the batch is released: marked pooled,
\* reset, and in the free list unless the list is full (or the event had
\* already been released and dropped by a full list before).
C6_NoRetryFailure ==
  /\ [](~RetryEnabled =>
          \A i \in Batches :
            handed[i].fails >= 1 =>
              /\ handed[i].state = "FAILED_TERMINAL"
              /\ handed[i].calls = 1
              /\ handed[i].counted = 0
              /\ tasks[handed[i].task].pc = "rejected")
  /\ [][\A t \in Tasks :
          /\ ~RetryEnabled
          /\ tasks[t].pc = "processing"
          /\ handed'[tasks[t].bid].state = "FAILED_TERMINAL"
          => /\ tasks'[t].pc = "rejected"
             /\ stats'.errors = stats.errors + 1
             /\ stats'.batchesFlushed = stats.batchesFlushed
             /\ \A e \in Poolable(handed[tasks[t].bid].events) :
                  /\ evt'[e].inPool
                  /\ IsDefault(evt'[e])
                  /\ \/ e \in Range(pool')
                     \/ Len(pool') >= MaxPoolSize
                     \/ evt[e].inPool /\ e \notin Range(pool)]_vars

C6_Witness ==
  /\ ~RetryEnabled
  /\ \E i \in Batches :
       /\ handed[i].state = "FAILED_TERMINAL"
       /\ tasks[handed[i].task].pc = "rejected"
       /\ \E e \in Poolable(handed[i].events) : e \in Range(pool)

IsDestroyCall ==
  /\ Len(tasks') = Len(tasks) + 1
  /\ tasks'[Len(tasks')].kind = "destroy"

\* C7: destroy() is idempotent -- the drain flush is started exactly once,
\* by the first destroy() call; a destroy() call made while the engine is
\* already destroying changes nothing and resolves at once.
C7_DestroyIdempotent ==
  /\ [](drains = IF isDestroying THEN 1 ELSE 0)
  /\ [][IsDestroyCall /\ isDestroying =>
          /\ UNCHANGED <<poolVars, engineVars, handed, flushedTotal, drains>>
          /\ tasks'[Len(tasks')].pc = "resolved"]_vars
  /\ [][IsDestroyCall /\ ~isDestroying =>
          /\ drains' = 1
          /\ isDestroying'
          /\ batch' = <<>>
          /\ batch # <<>> =>
               /\ Len(handed') = Len(handed) + 1
               /\ handed'[Len(handed')].events = batch]_vars

C7_Witness ==
  /\ Cardinality({t \in Tasks : tasks[t].kind = "destroy"}) >= 2
  /\ \E i \in Batches : tasks[handed[i].task].kind = "destroy"
  /\ drains = 1

(* ----------------------- the pool on its own --------------------------- *)
LastOp == opLog[Len(opLog)]

NoDup(q) == \A i, j \in 1..Len(q) : q[i] = q[j] => i = j

\* C8: release() is idempotent -- no instance is twice in the free list,
\* and releasing an event that carries the pooled marker changes neither
\* the free list nor the active counter.
C8_ReleaseIdempotent ==
  /\ [](NoDup(pool))
  /\ [][/\ Len(opLog') = Len(opLog) + 1
        /\ opLog'[Len(opLog')].op = "release"
        /\ opLog'[Len(opLog')].wasPooled
        => pool' = pool /\ active' = active /\ evt' = evt]_vars

C8_Witness ==
  /\ opLog # <<>>
  /\ LastOp.op = "release"
  /\ LastOp.wasPooled
  /\ LastOp.ev \in Range(pool)
  /\ \E i \in 1..(Len(opLog) - 1) :
       opLog[i].op = "release" /\ opLog[i].ev = LastOp.ev /\ ~opLog[i].wasPooled

\* C9: every instance in the free list carries the pooled marker and has
\* its mutable fields at their defaults, and the instance acquire() returns
\* has no residual content and has the marker cleared.
C9_FreeListClean ==
  /\ \A e \in Range(pool) : evt[e].inPool /\ IsDefault(evt[e])
  /\ opLog # <<>> /\ LastOp.op = "acquire" =>
       IsDefault(evt[LastOp.ev]) /\ ~evt[LastOp.ev].inPool

C9_Witness ==
  /\ opLog # <<>>
  /\ LastOp.op = "acquire"
  /\ LastOp.wasPooled
  /\ \E i, j \in 1..Len(opLog) :
       /\ i < j
       /\ opLog[i].op = "populate" /\ opLog[i].ev = LastOp.ev
       /\ opLog[j].op = "release" /\ opLog[j].ev = LastOp.ev
       /\ ~opLog[j].wasPooled

(* --------------------- the sequential producer ------------------------- *)
HandedSizes == [i \in Batches |-> Len(handed[i].events)]

\* C10: size-triggered batching of awaited appends -- after n awaited
\* appends exactly n div maxBatchSize batches were flushed, each of exactly
\* maxBatchSize events, n mod maxBatchSize events wait in the buffer, and
\* the final drain flushes exactly those; maxBatchSize = 3 and n = 7 give
\* the sizes 3, 3, 1.
C10_SequentialBatching ==
  LET n == stats.totalEvents
      b == config.maxBatchSize
      full == [i \in 1..(n \div b) |-> b]
  IN /\ AllSettled /\ ~Drained =>
          /\ HandedSizes = full
          /\ Len(batch) = n % b
     /\ AllSettled /\ Drained =>
          /\ HandedSizes = IF n % b = 0 THEN full ELSE Append(full, n % b)
          /\ batch = <<>>
          /\ \A i \in Batches : handed[i].state = "SUCCEEDED"
     /\ AllSettled /\ Drained /\ n = 7 /\ b = 3 => HandedSizes = <<3, 3, 1>>

C10_Witness ==
  /\ AllSettled
  /\ Drained
  /\ stats.totalEvents = 7
  /\ config.maxBatchSize = 3
  /\ Len(handed) = 3

(* ----------------------------- timers ---------------------------------- *)
IsTimerCallback ==
  /\ Len(tasks') = Len(tasks) + 1
  /\ tasks'[Len(tasks')].kind = "timer"

\* C11: at most one flush timer is armed in every reachable state, and it
\* is the one this.flushTimer refers to; scheduleFlush arms a timer only
\* when none is armed; the timer callback and a flush() that swaps out the
\* buffer leave no timer armed and no handle behind.
C11_SingleTimer ==
  /\ [](armed <= 1 /\ (flushTimer <=> armed = 1))
  /\ [][armed' > armed => ~flushTimer /\ armed = 0 /\ armed' = 1]_vars
  /\ [][IsTimerCallback \/ Len(handed') > Len(handed) =>
          ~flushTimer' /\ armed' = 0]_vars

C11_Witness ==
  /\ flushTimer
  /\ armed = 1
  /\ \E i \in Batches : tasks[handed[i].task].kind = "timer"
  /\ \E i \in Batches : tasks[handed[i].task].kind = "force"

(* ----------------------- release of pooled events ---------------------- *)
Terminal(b) == b.state \in {"SUCCEEDED", "FAILED_TERMINAL"}

\* a step of the engine: no producer runs its finally block in it
EngineStep == \A t \in Tasks : tasks'[t].released = tasks[t].released

\* C12: the engine releases the pooled events of a batch when the batch
\* reaches a terminal outcome -- each of them carries the pooled marker
\* right after that step -- and never before: no step of the engine marks
\* as pooled an event of a batch that is being processed or waits in retry
\* backoff after the step.
C12_ReleaseAtTerminal ==
  /\ [][\A i \in Batches :
          ~Terminal(handed[i]) /\ Terminal(handed'[i]) =>
            \A e \in Poolable(handed[i].events) : evt'[e].inPool]_vars
  /\ [][EngineStep =>
          \A i \in 1..Len(handed') :
            ~Terminal(handed'[i]) =>
              \A e \in Poolable(handed'[i].events) :
                evt'[e].inPool => evt[e].inPool]_vars

(* ------------------------ append after destroy ------------------------- *)
IsAppendCall ==
  /\ Len(tasks') = Len(tasks) + 1
  /\ tasks'[Len(tasks')].kind = "append"

\* the append() calls made after a destroy() call
LateAppends ==
  {t \in Tasks : /\ tasks[t].kind = "append"
                 /\ \E d \in 1..(t - 1) : tasks[d].kind = "destroy"}

\* C13: an append() call invoked after destroy() has been invoked resolves
\* at once without error, leaves the pending buffer, the statistics and the
\* timer unchanged and never starts a flush, then or later.
C13_AppendAfterDestroy ==
  /\ [][IsAppendCall /\ isDestroying =>
          /\ tasks'[Len(tasks')].pc = "resolved"
          /\ UNCHANGED <<batch, stats, flushTimer, armed, handed, accepted>>]_vars
  /\ [](\A t \in LateAppends :
          /\ tasks[t].pc = "resolved"
          /\ tasks[t].bid = 0
          /\ tasks[t].rest = <<>>)
  /\ [](\A t \in Tasks :
          tasks[t].kind = "destroy" => isDestroying)

C13_Witness ==
  /\ \E t \in LateAppends : tasks[t].owner # 0
  /\ \E t \in LateAppends : tasks[t].owner = 0
  /\ stats.totalEvents = 0

(* ------------------------------ ordering ------------------------------- *)
RECURSIVE Flatten(_)
Flatten(q) == IF q = <<>> THEN <<>> ELSE Head(q) \o Flatten(Tail(q))

\* the events pushed by addToBatch, in push order
AcceptedEvents == [k \in 1..Len(accepted) |-> accepted[k].ev]

\* the first argument each batch was handed to processBatch with
FirstHandOffs == [i \in Batches |-> handed[i].sent[1]]

\* C14: FIFO ordering -- the batches, concatenated in the order of their
\* first hand-off to processBatch and followed by the pending buffer, are
\* exactly the accepted events in the order addToBatch pushed them, and
\* every retry hands processBatch the same events in the same order.
C14_FifoOrder ==
  /\ Flatten(FirstHandOffs) \o batch = AcceptedEvents
  /\ \A i \in Batches :
       /\ Len(handed[i].sent) = handed[i].calls
       /\ \A k \in 1..Len(handed[i].sent) : handed[i].sent[k] = handed[i].sent[1]

C14_Witness ==
  /\ Len(handed) >= 2
  /\ \E i \in Batches : Len(handed[i].sent) >= 2 /\ Len(handed[i].sent[1]) >= 2
  /\ batch # <<>>

(* --------------------- the sink that always fails ---------------------- *)
\* C15: retry exhaustion -- with enableRetry, maxRetries = M > 0 and a sink
\* that always fails, processBatch is invoked at most 1 + M times for a
\* batch; the batch fails terminally after exactly 1 + M invocations (M
\* retries), in the step in which its flush() call rejects and its pooled
\* events are released; afterwards the call stays rejected and the batch
\* is never handed to processBatch again.
C15_RetryExhaustion ==
  /\ [](\A i \in Batches :
          /\ handed[i].calls <= 1 + config.maxRetries
          /\ handed[i].state = "FAILED_TERMINAL" =>
               /\ handed[i].calls = 1 + config.maxRetries
               /\ handed[i].fails = 1 + config.maxRetries
               /\ handed[i].retriesMade = config.maxRetries
               /\ handed[i].counted = 0
               /\ tasks[handed[i].task].pc = "rejected")
  /\ [][\A i \in Batches :
          handed[i].state # "FAILED_TERMINAL"
          /\ handed'[i].state = "FAILED_TERMINAL" =>
            /\ tasks[handed[i].task].pc = "retrying"
            /\ tasks'[handed[i].task].pc = "rejected"
            /\ \A e \in Poolable(handed[i].events) : evt'[e].inPool]_vars
  /\ [][\A i \in Batches :
          handed[i].state = "FAILED_TERMINAL" =>
            /\ handed'[i] = handed[i]
            /\ tasks'[handed[i].task] = tasks[handed[i].task]
               \/ tasks'[handed[i].task] =
                    [tasks[handed[i].task] EXCEPT !.released = TRUE]]_vars

C15_Witness ==
  /\ config.maxRetries = MaxRetries
  /\ \E i \in Batches :
       /\ handed[i].state = "FAILED_TERMINAL"
       /\ handed[i].calls = 1 + MaxRetries
       /\ tasks[handed[i].task].pc = "rejected"
       /\ tasks[handed[i].task].kind = "force"
       /\ Poolable(handed[i].events) # {}

(* --------------------------- retry decision ---------------------------- *)
\* the first processBatch call of the batch of call t rejects in this step
FirstAttemptFails(t) ==
  /\ tasks[t].pc = "processing"
  /\ handed'[tasks[t].bid].fails = handed[tasks[t].bid].fails + 1

C17_RetryBookkeeping ==
  [][\A t \in Tasks :
       tasks[t].pc = "retrying" /\ handed'[tasks[t].bid].state = "SUCCEEDED" =>
         LET n == Len(handed[tasks[t].bid].events)
             st == [stats EXCEPT !.batchesFlushed = @ + 1]
         IN /\ stats'.batchesFlushed = stats.batchesFlushed + 1
            /\ stats'.avgBatchSize = updateAverageBatchSize(st, n).avgBatchSize
            /\ stats'.pendingEvents = Max(0, stats.pendingEvents - n)
            /\ \A e \in Poolable(handed[tasks[t].bid].events) :
                 evt'[e].inPool]_vars

\* C18: backoff schedule -- the wait before retry attempt n is
\* min(1000 * 2^n, 10000): 1000, 2000, 4000, 8000, then 10000 for n >= 4;
\* it never exceeds 10000 and never decreases from one attempt to the next.
C18_BackoffSchedule ==
  /\ [](\A t \in Tasks :
          tasks[t].pc = "backoff" =>
            /\ tasks[t].delay = CASE tasks[t].attempt = 0 -> 1000
                                  [] tasks[t].attempt = 1 -> 2000
                                  [] tasks[t].attempt = 2 -> 4000
                                  [] tasks[t].attempt = 3 -> 8000
                                  [] OTHER -> 10000
            /\ tasks[t].delay <= 10000)
  /\ [][\A t \in Tasks :
          tasks[t].pc = "retrying" /\ tasks'[t].pc = "backoff" =>
            /\ tasks'[t].attempt = tasks[t].attempt + 1
            /\ tasks'[t].delay >= tasks[t].delay]_vars

C18_Witness ==
  \E t \in Tasks :
    /\ tasks[t].pc = "backoff"
    /\ tasks[t].attempt = 5
    /\ tasks[t].delay = 10000

(* ------------------------------- drain --------------------------------- *)
\* the first destroy() call
FirstDestroy ==
  {t \in Tasks : /\ tasks[t].kind = "destroy"
                 /\ \A d \in 1..(t - 1) : tasks[d].kind # "destroy"}

\* C19: when the first destroy() call has resolved, every event accepted
\* (pushed by addToBatch) before destroy() was invoked has been handed to
\* processBatch, in an earlier batch or in the drain batch.
C19_DrainOnDestroy ==
  \A t \in FirstDestroy :
    tasks[t].pc = "resolved" =>
      \A k \in 1..Len(accepted) :
        ~accepted[k].destroying =>
          /\ k <= Len(Flatten(FirstHandOffs))
          /\ Flatten(FirstHandOffs)[k] = accepted[k].ev

C19_Witness ==
  /\ \E t \in FirstDestroy :
       /\ tasks[t].pc = "resolved"
       /\ tasks[t].bid # 0
       /\ handed[tasks[t].bid].fails >= 1
  /\ \E k \in 1..Len(accepted) : ~accepted[k].destroying
  /\ \E k \in 1..Len(accepted) : accepted[k].destroying

(* -------------------------- retry containment -------------------------- *)
\* C20: retry containment -- a call of append / forceFlush / destroy
\* rejects only when its batch has failed terminally; when a batch that
\* failed on its first attempt or on retries succeeds on a later retry,
\* its call continues normally in that step and is not rejected for it.
C20_RetryContainment ==
  /\ [](\A t \in Tasks :
          /\ tasks[t].pc = "rejected" =>
               /\ tasks[t].bid # 0
               /\ handed[tasks[t].bid].state = "FAILED_TERMINAL"
          /\ tasks[t].bid # 0 /\ handed[tasks[t].bid].state = "SUCCEEDED" =>
               tasks[t].pc \in {"resolved", "loopNext", "sfAwait"})
  /\ [][\A t \in Tasks :
          /\ tasks[t].pc = "retrying"
          /\ handed'[tasks[t].bid].state = "SUCCEEDED"
          => tasks'[t].pc = IF tasks[t].kind = "append" /\ tasks[t].rest # <<>>
                             THEN "loopNext" ELSE "resolved"]_vars

C20_Witness ==
  /\ stats.errors = 1
  /\ \E t \in Tasks :
       /\ tasks[t].kind = "force"
       /\ tasks[t].pc = "resolved"
       /\ tasks[t].bid # 0
       /\ handed[tasks[t].bid].fails = 2
  /\ \A t \in Tasks : tasks[t].pc = "resolved"

(* --------------------------- batch outcomes ---------------------------- *)
\* C21: every batch swapped out of the pending buffer eventually reaches a
\* terminal state, provided each processBatch call eventually settles and
\* timers fire, also when destroy() is called while its processBatch or its
\* retry is in flight; a batch is in one of the four states, and a terminal
\* state (SUCCEEDED or FAILED_TERMINAL) is never left.  Stated as: again
\* and again all batches swapped out so far are terminal; as a terminal
\* state is never left, each batch is terminal from some point on.
C21_BatchTerminates ==
  /\ []<>(\A i \in Batches : Terminal(handed[i]))
  /\ [](\A i \in Batches :
          handed[i].state \in
            {"FLUSHING", "RETRYING", "SUCCEEDED", "FAILED_TERMINAL"})
  /\ [][\A i \in Batches :
          Terminal(handed[i]) => handed'[i].state = handed[i].state]_vars

C21_Witness ==
  /\ isDestroying
  /\ \E t \in Tasks, d \in Tasks :
       /\ t < d
       /\ tasks[t].kind = "force"
       /\ tasks[d].kind = "destroy"
       /\ tasks[t].pc = "retrying"
       /\ handed[tasks[t].bid].calls = 2

(* ------------------------ concurrent flushes --------------------------- *)
\* processBatch invocations of batch i started and not yet settled
InFlight(i) == handed[i].calls - handed[i].fails - handed[i].counted

\* C22: for a single batch at most one processBatch invocation is in
\* flight at any time (the batch is FLUSHING exactly then, and one call is
\* suspended on it), while flushes of different batches are not
\* serialized: two batches can be in flight together and the later one can
\* complete first.
C22_SequentialRetries ==
  \A i \in Batches :
    /\ InFlight(i) \in {0, 1}
    /\ InFlight(i) = 1 <=> handed[i].state = "FLUSHING"
    /\ Cardinality({t \in Tasks : /\ tasks[t].bid = i
                                  /\ tasks[t].pc \in {"processing", "retrying"}})
         = InFlight(i)

C22_Witness ==
  \E i \in Batches, j \in Batches, k \in Batches :
    /\ i < j /\ j < k
    /\ handed[i].state = "FLUSHING"
    /\ handed[j].state = "SUCCEEDED"
    /\ handed[k].state = "FLUSHING"
    /\ handed[i].calls = 2

(* ---------------------- the pool's statistics -------------------------- *)
\* the operations performed since construction or the last clear()
SinceClear ==
  LET cs == {i \in 1..Len(opLog) : opLog[i].op = "clear"}
      last == IF cs = {} THEN 0 ELSE CHOOSE i \in cs : \A j \in cs : j <= i
  IN SubSeq(opLog, last + 1, Len(opLog))

Acquires(q) == {i \in 1..Len(q) : q[i].op = "acquire"}

Reuses(q) == {i \in Acquires(q) : q[i].wasPooled}

IsAcquireCall ==
  /\ Len(opLog') = Len(opLog) + 1
  /\ opLog'[Len(opLog')].op = "acquire"

\* C23: acquire() always returns an instance: one removed from the free
\* list, with reused incremented, when the list is non-empty, otherwise a
\* newly constructed one, with created incremented; created + reused is
\* the number of acquire() calls since construction or the last clear(),
\* and hitRate is reused / (created + reused), 0 when no acquire happened.
C23_AcquireCounts ==
  /\ [](/\ created + reused = Cardinality(Acquires(SinceClear))
        /\ reused = Cardinality(Reuses(SinceClear))
        /\ hitRate(PoolState) =
             IF Acquires(SinceClear) = {} THEN Frac(0, 1)
             ELSE Frac(Cardinality(Reuses(SinceClear)),
                       Cardinality(Acquires(SinceClear))))
  /\ [][IsAcquireCall =>
          LET e == opLog'[Len(opLog')].ev
          IN IF pool # <<>>
               THEN /\ e \in Range(pool)
                    /\ e \notin Range(pool')
                    /\ Len(pool') = Len(pool) - 1
                    /\ reused' = reused + 1 /\ created' = created
                    /\ Len(evt') = Len(evt)
               ELSE /\ e = Len(evt) + 1
                    /\ Len(evt') = Len(evt) + 1
                    /\ created' = created + 1 /\ reused' = reused
                    /\ pool' = pool]_vars

C23_Witness ==
  /\ \E i \in 1..Len(opLog) : opLog[i].op = "clear"
  /\ Cardinality(Acquires(opLog)) = 3
  /\ created = 1
  /\ reused = 1
  /\ hitRate(PoolState) = [num |-> 1, den |-> 2]

(* ---------------------------- the file sink ---------------------------- *)
Invocations == 1..Len(sink.inv)

\* C24 as stated: every processBatch invocation of the file sink that has
\* settled made exactly one append write, of one line per event in batch
\* order.
C24_OneWritePerInvocation ==
  \A k \in Invocations :
    sink.inv[k].pc \in {"resolved", "rejected"} =>
      /\ sink.inv[k].writes = 1
      /\ sink.inv[k].content = formatLines(sink.inv[k].events)

\* C24, amended: a processBatch invocation makes no append write while it
\* initializes lazily or when that initialization fails, and exactly one
\* otherwise; the write holds one line per event in batch order; when it
\* succeeds the lines are appended to the file and the invocation
\* resolves, when it fails the invocation rejects for the whole batch.
C24_OneWriteUnlessInitFails ==
  /\ [](\A k \in Invocations :
          LET r == sink.inv[k]
          IN /\ r.writes = IF r.pc \in {"mkdir", "access", "create"}
                               \/ r.cause = "init"
                            THEN 0 ELSE 1
             /\ r.writes = 1 =>
                  /\ Len(r.content) = Len(r.events)
                  /\ \A i \in 1..Len(r.events) :
                       r.content[i] = defaultFormatter(r.events[i])
             /\ r.pc = "resolved" => r.cause = "none"
             /\ r.pc = "rejected" => r.cause \in {"init", "write"})
  /\ [][\A k \in Invocations :
          sink.inv[k].pc = "write" /\ sink'.inv[k].pc # "write" =>
            \/ /\ sink'.inv[k].pc = "resolved"
               /\ sink'.file = sink.file \o sink.inv[k].content
            \/ /\ sink'.inv[k].pc = "rejected"
               /\ sink'.inv[k].cause = "write"
               /\ sink'.inv[k].writes = 1]_vars

C24_Witness ==
  /\ \E k \in Invocations :
       /\ sink.inv[k].pc = "resolved"
       /\ Len(sink.inv[k].events) = 2
       /\ sink.inv[k].events[1] # sink.inv[k].events[2]
  /\ \E k \in Invocations :
       /\ sink.inv[k].pc = "rejected"
       /\ sink.inv[k].cause = "write"
       /\ Len(sink.inv[k].events) = 2

(* ------------------------- intake after destroy ------------------------ *)
\* C25: once destroy() has been invoked no step makes the pending buffer
\* grow, increases totalEvents or arms a flush timer, also when an append()
\* of an array was suspended at the moment destroy() was called.
C25_IntakeStopped ==
  [][isDestroying =>
       /\ Len(batch') <= Len(batch)
       /\ stats'.totalEvents = stats.totalEvents
       /\ armed' <= armed
       /\ (flushTimer' => flushTimer)]_vars

(* --------------------------- shouldFlush -------------------------------- *)
\* length of an optional string
StrLen(x) == IF x = Undefined THEN 0 ELSE x

\* the estimate as documented: 100 + 2*len(message) + 2*len(context) +
\* 2*len(serialized data), 100 for data that does not serialize
DocumentedEventSize(ev) ==
  100 + 2 * StrLen(ev.message) + 2 * StrLen(ev.context)
  + (IF ev.data = Undefined THEN 0
     ELSE IF ev.data = Circular THEN 100
     ELSE 2 * SerializedLength(ev.data))

DocumentedBatchSize(b, h) ==
  SumSeq([i \in 1..Len(b) |-> DocumentedEventSize(h[b[i]])])

\* C26: the value shouldFlush() returned to a suspended addToBatch is true
\* exactly when the buffer length is >= maxBatchSize, or maxMemoryUsage is
\* configured (non-zero) and the documented estimate summed over the
\* buffer is >= maxMemoryUsage.
C26_ShouldFlushExact ==
  \A t \in Tasks :
    tasks[t].pc = "sfAwait" =>
      (tasks[t].sf <=>
         \/ Len(batch) >= config.maxBatchSize
         \/ /\ config.maxMemoryUsage \notin {Undefined, 0}
            /\ DocumentedBatchSize(batch, evt) >= config.maxMemoryUsage)

(* ------------------------ swap and cancel ------------------------------- *)
\* C27: the step of flush() that starts a processBatch call hands over the
\* whole pending buffer and leaves the buffer empty and no timer armed; and
\* in every reachable state an armed timer implies a non-empty pending
\* buffer, so a flush() that returns early on an empty buffer leaves no
\* stale timer.
C27_SwapAndCancel ==
  /\ [](flushTimer \/ armed > 0 => batch # <<>>)
  /\ [][Len(handed') > Len(handed) =>
         /\ Len(handed') = Len(handed) + 1
         /\ handed'[Len(handed')].events = batch
         /\ batch # <<>>
         /\ batch' = <<>>
         /\ ~flushTimer'
         /\ armed' = 0]_vars
  /\ [][/\ batch = <<>>
         /\ Len(tasks') > Len(tasks)
         /\ tasks'[Len(tasks')].kind \in {"force", "destroy", "timer"}
         => /\ batch' = <<>>
            /\ ~flushTimer'
            /\ armed' = 0
            /\ handed' = handed
            /\ tasks'[Len(tasks')].pc = "resolved"]_vars

C27_Witness ==
  /\ \E t \in Tasks :
       /\ tasks[t].kind = "timer"
       /\ tasks[t].pc = "processing"
       /\ handed[tasks[t].bid].state = "FLUSHING"
  /\ \E t \in Tasks :
       /\ tasks[t].kind = "force"
       /\ tasks[t].bid = 0
       /\ tasks[t].pc = "resolved"
  /\ batch = <<>>
  /\ ~flushTimer

(* ------------------------ one batch per event --------------------------- *)
\* number of positions of q that hold e
Count(q, e) == Cardinality({i \in 1..Len(q) : q[i] = e})

\* number of positions, over all batches handed to processBatch, that hold e
CountHanded(e) == SumSeq([i \in Batches |-> Count(handed[i].events, e)])

\* C28: every push of an event is matched by exactly one place in the
\* pending buffer or in a batch: an event object pushed once is in the
\* buffer or in exactly one batch, once, never in two batches and never in
\* none; once the buffer is empty every accepted event is in a batch.
C28_ExactlyOneBatch ==
  \A e \in 1..Len(evt) :
    /\ Count(AcceptedEvents, e) = Count(batch, e) + CountHanded(e)
    /\ Count(AcceptedEvents, e) = 1 =>
         Cardinality({i \in Batches : Count(handed[i].events, e) > 0})
           = IF Count(batch, e) > 0 THEN 0 ELSE 1

C28_Witness ==
  /\ \E t, d \in Tasks :
       /\ tasks[t].kind = "timer"
       /\ tasks[d].kind = "destroy"
       /\ tasks[t].bid > 0
       /\ tasks[d].bid > 0
       /\ tasks[t].bid # tasks[d].bid
  /\ Len(accepted) >= 3
  /\ \A e \in 1..Len(evt) : Count(AcceptedEvents, e) = 1
  /\ batch = <<>>

(* ---------------------------- pendingEvents ----------------------------- *)
\* C29: in every reachable state stats.pendingEvents is the number of
\* events in the pending buffer plus the number of events in batches that
\* have not reached a terminal outcome; it is 0 once the buffer is empty
\* and every batch is terminal.
C29_PendingEvents ==
  stats.pendingEvents =
    Len(batch)
    + SumSeq([i \in Batches |->
               IF Terminal(handed[i]) THEN 0 ELSE Len(handed[i].events)])

(* ----------------------------- pool bound ------------------------------- *)
\* C30: the free list never holds more than maxPoolSize instances after any
\* sequence of acquire, release and prewarm operations.
C30_PoolBounded == Len(pool) <= MaxPoolSize

(* --------------------------- array appends ------------------------------ *)
\* C31: an append(events) call with an array, invoked while the engine is
\* active, has pushed every event of the array by the time it settles,
\* also when a flush triggered by an earlier event of the array failed.
C31_ArrayFullyPushed ==
  \A t \in Tasks :
    tasks[t].kind = "append" /\ Settled(tasks[t]) => tasks[t].rest = <<>>

(* ------------------------- re-entrant destroy ---------------------------- *)
\* C32: a destroy() call has resolved only if the final drain flush (the
\* flush of the first destroy() call) has settled; this includes a
\* destroy() issued while the first call's drain is in progress.
C32_DestroyAfterDrain ==
  \A d \in Tasks :
    tasks[d].kind = "destroy" /\ tasks[d].pc = "resolved" =>
      \A f \in FirstDestroy : Settled(tasks[f])

(* --------------------------- avgBatchSize ------------------------------- *)
\* number of events in the batches counted in batchesFlushed
CountedEvents ==
  SumSeq([i \in Batches |-> handed[i].counted * Len(handed[i].events)])

FailedFirst == {i \in Batches : handed[i].fails >= 1}

\* C34: stats.errors is the number of batches whose first processBatch
\* attempt failed: it goes up by one in the step where a first attempt
\* fails and stays when a retry attempt fails, so it never exceeds the
\* number of batches swapped out; stats.retries is the number of retry
\* attempts started and never exceeds errors * maxRetries.
C34_ErrorsPerBatch ==
  /\ [](/\ stats.errors = Cardinality(FailedFirst)
        /\ stats.errors <= Len(handed)
        /\ stats.retries = SumRetriesMade
        /\ stats.retries <= stats.errors * Nullish(config.maxRetries, 0)
        /\ \A i \in Batches :
             /\ handed[i].retriesMade <= Nullish(config.maxRetries, 0)
             /\ handed[i].fails = 0 => handed[i].retriesMade = 0)
  /\ [][\A i \in Batches :
          handed'[i].fails > handed[i].fails =>
            stats'.errors = IF handed[i].fails = 0 THEN stats.errors + 1
                            ELSE stats.errors]_vars
  /\ [][stats'.retries > stats.retries =>
          /\ stats'.retries = stats.retries + 1
          /\ \E i \in Batches :
               /\ handed'[i].retriesMade = handed[i].retriesMade + 1
               /\ handed'[i].state = "RETRYING"]_vars

C34_Witness ==
  /\ stats.errors = 1
  /\ stats.retries = 2
  /\ Len(handed) = 2
  /\ \E i \in Batches : handed[i].fails = 2 /\ handed[i].state = "RETRYING"

(* ----------------------- flush on an empty buffer ------------------------ *)
\* a step in which flush() is entered: a forceFlush(), destroy() or timer
\* callback starts, or an addToBatch continues after shouldFlush() was true
EntersFlush ==
  \/ /\ Len(tasks') > Len(tasks)
     /\ tasks'[Len(tasks')].kind \in {"force", "timer"}
  \/ IsDestroyCall /\ ~isDestroying
  \/ \E t \in Tasks :
       tasks[t].pc = "sfAwait" /\ tasks[t].sf /\ tasks'[t].pc # "sfAwait"

\* C35: no processBatch invocation receives an empty batch, and a flush()
\* entered with an empty pending buffer (from forceFlush, destroy, the
\* timer callback or addToBatch) hands nothing over and leaves every
\* counter of stats unchanged.
C35_NoEmptyBatch ==
  /\ [](\A i \in Batches :
          \A k \in 1..Len(handed[i].sent) : handed[i].sent[k] # <<>>)
  /\ [][batch = <<>> /\ EntersFlush =>
          /\ stats' = stats
          /\ handed' = handed
          /\ batch' = <<>>
          /\ flushTimer' = flushTimer
          /\ armed' = armed]_vars

C35_Witness ==
  /\ \E a \in Tasks :
       /\ tasks[a].kind = "append"
       /\ tasks[a].sf
       /\ tasks[a].bid = 0
       /\ tasks[a].pc = "resolved"
  /\ \E f \in Tasks :
       /\ tasks[f].kind = "force"
       /\ tasks[f].bid = 0
       /\ tasks[f].pc = "resolved"
  /\ Len(handed) = 1
  /\ stats.totalEvents = 1
  /\ stats.batchesFlushed = 0

(* ------------------------ what a call waits for -------------------------- *)
\* the calls suspended on the sink or on a retry backoff
Waiting == {t \in Tasks : tasks[t].pc \in {"processing", "backoff", "retrying"}}

\* C36: a call is suspended on the sink or on a backoff only for the batch
\* its own flush() swapped out, and stays suspended until that batch is
\* terminal; an append whose shouldFlush() was false continues without
\* waiting, whatever other batches are in flight.
C36_WaitsOnOwnBatch ==
  /\ [](\A t \in Waiting :
          /\ tasks[t].bid \in Batches
          /\ handed[tasks[t].bid].task = t
          /\ ~Terminal(handed[tasks[t].bid]))
  /\ [](\A i \in Batches :
          ~Terminal(handed[i]) =>
            handed[i].task \in Waiting /\ tasks[handed[i].task].bid = i)
  /\ [][\A t \in Tasks :
          /\ tasks[t].kind = "append"
          /\ tasks[t].pc = "sfAwait"
          /\ ~tasks[t].sf
          /\ tasks'[t] # tasks[t]
          => /\ tasks'[t].pc = IF tasks[t].rest = <<>> THEN "resolved"
                               ELSE "loopNext"
             /\ tasks'[t].bid = tasks[t].bid
             /\ handed' = handed]_vars

C36_Witness ==
  \E b, c \in Tasks :
    /\ b < c
    /\ tasks[b].kind = "append"
    /\ tasks[b].pc = "backoff"
    /\ tasks[c].kind = "append"
    /\ tasks[c].pc = "resolved"
    /\ ~tasks[c].sf
    /\ tasks[c].bid = 0
    /\ Len(batch) = 1
    /\ ~isDestroying

(* ----------------------------- active count ----------------------------- *)
\* the instances acquired and not yet released
CheckedOut == {e \in 1..Len(evt) : ~evt[e].inPool}

IsPrewarmCall ==
  Len(opLog') = Len(opLog) + 1 /\ opLog'[Len(opLog')].op = "prewarm"

\* C37: after any sequence of acquire, release and prewarm operations (no
\* clear) the active counter equals the number of instances checked out;
\* it is never negative; prewarm changes neither active, created nor
\* reused.
C37_ActiveCount ==
  /\ [](active >= 0)
  /\ [](SinceClear = opLog => active = Cardinality(CheckedOut))
  /\ [][IsPrewarmCall => UNCHANGED <<active, created, reused>>]_vars

C37_Witness ==
  /\ SinceClear = opLog
  /\ \E i, j, k \in 1..Len(opLog) :
       /\ i < j
       /\ j < k
       /\ opLog[i].op = "prewarm"
       /\ opLog[i].ev >= 1
       /\ opLog[j].op = "acquire"
       /\ opLog[j].wasPooled
       /\ opLog[k].op = "release"
       /\ ~opLog[k].wasPooled
  /\ active = 1
  /\ Cardinality(CheckedOut) = 1
  /\ Len(evt) > Len(pool) + 1

(* ----------------------- lazy initialization ----------------------------- *)
\* C38: once a processBatch invocation of the file sink has completed, no
\* later step (in particular no lazy initialization of another invocation)
\* erases lines from the file: the file only grows at its end.
C38_InitBeforeWrites ==
  [][(\E k \in Invocations : sink.inv[k].pc = "resolved") =>
       /\ Len(sink'.file) >= Len(sink.file)
       /\ SubSeq(sink'.file, 1, Len(sink.file)) = sink.file]_vars

====
